---- MODULE Spec2Model ----
(***************************************************************************)
(* Verification model of three adapters of SimpleTuner:                    *)
(*   helpers/legacy/sd_files.py        checkpoint save hook and retention  *)
(*   helpers/publishing/huggingface.py HubManager (publishing, retry)      *)
(*   helpers/data_backend/aws.py       S3DataBackend (object store)        *)
(* Each component has a specification of its own (SpecCkpt, SpecHub,       *)
(* SpecS3) over the shared variable list; a specification leaves the       *)
(* variables of the other components untouched.                            *)
(***************************************************************************)
EXTENDS Integers, Sequences, FiniteSets, TLC

VARIABLES
    \* ---- configuration shared by the hook and the hub manager
    model_type,            \* args.model_type: "full" or "lora"
    \* ---- sd_files.py: the output directory and the save hook
    checkpoints_total_limit, \* args.checkpoints_total_limit: <<>> (None) or <<L>>
    use_deepspeed_optimizer, \* closure argument of register_file_hooks
    disk,                  \* args.output_dir: entry name -> set of things in it
    hook,                  \* record of the last save_model_hook invocation
    latest,                \* record of the last upload_latest_checkpoint call
    \* ---- huggingface.py: upload_model / upload_validation_images
    hpc,                   \* position: "idle","images","weights","done"
    hcall,                 \* arguments of the running call
    gi, ii,                \* position of the image loops (group, image in group)
    idx, sub_idx,          \* the two counters of upload_validation_images
    attempt,               \* the attempt counter of the running retry loop
    outcomes,              \* outcomes of the upload calls of the current unit
    names,                 \* the files written/uploaded, in order
    imgCalls,              \* upload_file calls made for each finished image
    msgs,                  \* messages sent through webhook_handler
    remote,                \* what the weight upload has put into the hub repository
    \* ---- aws.py: the bucket and the batch writer
    store,                 \* bucket: key -> body
    everPut,               \* keys that a put_object has ever stored
    last,                  \* record of the last backend operation
    prevWrite,             \* path of the successful write() just before, or NoPath
    bpc,                   \* write_batch: "idle","running"
    tasks,                 \* the (key, data) pairs of the running or last write_batch
    queue,                 \* task indices submitted and not yet taken
    workers,               \* worker thread -> task index being uploaded, or 0
    puts                   \* task index -> put_object calls issued for it

cfgVars  == <<model_type>>
ckptVars == <<checkpoints_total_limit, use_deepspeed_optimizer, disk, hook, latest>>
hubVars  == <<hpc, hcall, gi, ii, idx, sub_idx, attempt, outcomes, names,
              imgCalls, msgs, remote>>
s3Vars   == <<store, everPut, last, prevWrite, bpc, tasks, queue, workers, puts>>
vars     == <<cfgVars, ckptVars, hubVars, s3Vars>>

(***************************************************************************)
(* Bounds of the model                                                     *)
(***************************************************************************)
MaxStep == 11
MaxInitCheckpoints == 2
MaxOnDisk == 3
MaxGap == 2
MaxLimit == 2
MaxModels == 2
MaxGroups == 2
MaxImages == 2
MaxBatch == 2
MaxWorkers == 2

Min(a, b) == IF a <= b THEN a ELSE b

(***************************************************************************)
(* Decimal text of integers: str(n) and int(s), digit by digit             *)
(***************************************************************************)
RECURSIVE Str(_)
Str(n) == IF n < 10 THEN <<n>> ELSE Append(Str(n \div 10), n % 10)

RECURSIVE ParseInt(_)
ParseInt(d) ==
    IF Len(d) = 1 THEN d[1]
    ELSE 10 * ParseInt(SubSeq(d, 1, Len(d) - 1)) + d[Len(d)]

(***************************************************************************)
(* sd_files.py: the output directory                                       *)
(* An entry of args.output_dir is named <pre> or <pre>-<suf>; suf is the   *)
(* decimal text after the dash.  disk maps each entry to what it holds.    *)
(***************************************************************************)
NoEntry == [pre |-> "None", suf |-> <<>>]
Other(s) == [pre |-> s, suf |-> <<>>]
OtherEntries == {Other("pipeline"), Other("assets")}

\* The directory the training loop hands to accelerator.save_state for step n.
CheckpointDir(n) == [pre |-> "checkpoint", suf |-> Str(n)]

ModelKinds == {"unet", "text_encoder", "other"}

RECURSIVE SeqsUpTo(_, _)
SeqsUpTo(S, n) ==
    IF n = 0 THEN {<<>>}
    ELSE LET shorter == SeqsUpTo(S, n - 1)
         IN shorter \cup {Append(q, x) : q \in {r \in shorter : Len(r) = n - 1}, x \in S}

\* os.listdir + the startswith("checkpoint") filter
ListCheckpoints(d) == {e \in DOMAIN d : e.pre = "checkpoint"}

\* key=lambda x: int(x.split("-")[1])
SortKey(e) == ParseInt(e.suf)

\* sorted(checkpoints, key=...)
RECURSIVE SortedByKey(_)
SortedByKey(S) ==
    IF S = {} THEN <<>>
    ELSE LET m == CHOOSE e \in S : \A f \in S : SortKey(e) <= SortKey(f)
         IN <<m>> \o SortedByKey(S \ {m})

\* shutil.rmtree of each entry of gone
RmTree(d, gone) == [e \in (DOMAIN d) \ gone |-> d[e]]

\* writing the thing `what` into directory `out`, created when missing
WriteInto(d, out, what) ==
    [e \in (DOMAIN d) \cup {out} |->
        IF e = out THEN (IF out \in DOMAIN d THEN d[out] ELSE {}) \cup {what}
        ELSE d[e]]

\* StateTracker.save_training_state(os.path.join(output_dir, "training_state.json"))
SaveTrainingState(d, out) == WriteInto(d, out, "training_state.json")

\* args.checkpoints_total_limit is None, written <<>>, or a number L, written <<L>>
None == <<>>
Limit == checkpoints_total_limit[1]

\* the retention block of the per-model loop
Prune(d) ==
    IF checkpoints_total_limit = None THEN d
    ELSE LET checkpoints == SortedByKey(ListCheckpoints(d))
         IN IF Len(checkpoints) >= Limit
            THEN LET num_to_remove == Len(checkpoints) - Limit + 1
                     removing_checkpoints ==
                         {checkpoints[i] : i \in 1..Min(num_to_remove, Len(checkpoints))}
                 IN RmTree(d, removing_checkpoints)
            ELSE d

\* "unet" if isinstance(model, type(unwrap_model(accelerator, unet))) else "text_encoder"
SubDir(model) == IF model = "unet" THEN "unet" ELSE "text_encoder"

\* for model in models: prune, model.save_pretrained(output_dir/sub_dir), weights.pop()
\* w is len(weights); popping the empty list raises IndexError
RECURSIVE FullLoop(_, _, _, _)
FullLoop(d, models, w, out) ==
    IF models = <<>> THEN [disk |-> d, result |-> "returned"]
    ELSE LET saved == WriteInto(Prune(d), out, SubDir(Head(models)))
         IN IF w = 0 THEN [disk |-> saved, result |-> "IndexError"]
            ELSE FullLoop(saved, Tail(models), w - 1, out)

\* the model_type == "lora" branch: classify each model, then save_lora_weights
LoraBranch(d, models, out) ==
    IF (\E i \in 1..Len(models) : models[i] = "other") /\ ~use_deepspeed_optimizer
    THEN [disk |-> d, result |-> "ValueError"]
    ELSE [disk |-> WriteInto(d, out, "pytorch_lora_weights.safetensors"),
          result |-> "returned"]

NoHook == [result |-> "none", out |-> NoEntry, models |-> <<>>, before |-> {}]
NoLatest == [called |-> FALSE, found |-> NoEntry, uploaded |-> FALSE, override |-> NoEntry]

\* save_model_hook(models, weights, output_dir), output_dir = checkpoint-<step>
SaveModelHook(step, models, w) ==
    LET out == CheckpointDir(step)
        d0 == SaveTrainingState(disk, out)
        r == IF model_type = "lora" THEN LoraBranch(d0, models, out)
             ELSE FullLoop(d0, models, w, out)
    IN /\ disk' = r.disk
       /\ hook' = [result |-> r.result, out |-> out, models |-> models,
                   before |-> ListCheckpoints(disk)]
       /\ latest' = NoLatest
       /\ UNCHANGED <<cfgVars, checkpoints_total_limit, use_deepspeed_optimizer,
                      hubVars, s3Vars>>

\* the step of the latest checkpoint on disk, -1 when there is none
LatestStep(d) ==
    IF ListCheckpoints(d) = {} THEN -1
    ELSE CHOOSE n \in 0..MaxStep :
           /\ \E e \in ListCheckpoints(d) : SortKey(e) = n
           /\ \A e \in ListCheckpoints(d) : SortKey(e) <= n

\* the step counter only grows: a new checkpoint is later than all on disk.
\* weights holds one entry per model, or none (the models were saved elsewhere)
SaveCheckpoint ==
    /\ Cardinality(ListCheckpoints(disk)) < MaxOnDisk
    /\ \E step \in 0..MaxStep, models \in SeqsUpTo(ModelKinds, MaxModels) :
         /\ LatestStep(disk) < step
         /\ step <= LatestStep(disk) + MaxGap
         /\ \E w \in {0, Len(models)} : SaveModelHook(step, models, w)

\* Path(output_dir).rglob("checkpoint-*")
Rglob(d) == {e \in DOMAIN d : e.pre = "checkpoint"}

\* the loop of find_latest_checkpoint: int(checkpoint.stem.split("-")[-1])
RECURSIVE FindLoop(_, _, _)
FindLoop(S, highest_checkpoint_value, highest_checkpoint) ==
    IF S = {} THEN highest_checkpoint
    ELSE LET checkpoint == CHOOSE c \in S : TRUE
             checkpoint_value == ParseInt(checkpoint.suf)
         IN IF checkpoint_value > highest_checkpoint_value
            THEN FindLoop(S \ {checkpoint}, checkpoint_value, checkpoint)
            ELSE FindLoop(S \ {checkpoint}, highest_checkpoint_value, highest_checkpoint)

find_latest_checkpoint(d) ==
    LET checkpoints == Rglob(d)
    IN IF Cardinality(checkpoints) > 0 THEN FindLoop(checkpoints, 0, NoEntry)
       ELSE NoEntry

\* upload_latest_checkpoint: upload_model(override_path=checkpoint_path) when found
UploadLatestCheckpoint ==
    LET checkpoint_path == find_latest_checkpoint(disk)
    IN /\ latest' = [called |-> TRUE, found |-> checkpoint_path,
                     uploaded |-> (checkpoint_path # NoEntry),
                     override |-> checkpoint_path]
       /\ hook' = NoHook
       /\ UNCHANGED <<cfgVars, checkpoints_total_limit, use_deepspeed_optimizer, disk,
                      hubVars, s3Vars>>

\* contents of a checkpoint written completely by an earlier run
FullContents ==
    IF model_type = "lora" THEN {"training_state.json", "pytorch_lora_weights.safetensors"}
    ELSE {"training_state.json", "unet", "text_encoder"}


(***************************************************************************)
(* huggingface.py: HubManager.upload_model and upload_validation_images    *)
(* One step per call of the hub API (upload_file / upload_folder), whose   *)
(* outcome, success or an exception, is chosen by the environment.         *)
(***************************************************************************)
MaxAttempts == 3

NoCall == [webhook |-> FALSE, override |-> NoEntry, images |-> <<>>]
OutputDir == Other("output_dir")
LabelNames == <<"cat", "dog", "bird", "fish">>

\* validation_images: groups in dict order, each a label and a number of images
\* (a value that is not a list is a group of one image)
ImageInputs ==
    UNION {
      {[k \in 1..m |-> [label |-> IF rev THEN LabelNames[m + 1 - k] ELSE LabelNames[k],
                        n |-> sz[k]]] :
          sz \in [1..m -> 0..MaxImages], rev \in BOOLEAN}
      : m \in 0..MaxGroups}

\* override_path or self.config.output_dir
RepoFolder == IF hcall.override # NoEntry THEN hcall.override ELSE OutputDir

\* f"image_{idx}_{sub_idx}.png"
FileName(i, j) == <<"image", Str(i), Str(j), "png">>

\* image_path and path_in_repo of the image being handled
ImageNames(i, j) ==
    [local |-> <<RepoFolder, "assets", FileName(i, j)>>,
     remote |-> <<"", "assets", FileName(i, j)>>]

\* the image after image i of group g in iteration order; g = 0 when there is none
NextPos(imgs, g, i) ==
    IF g >= 1 /\ i < imgs[g].n THEN [g |-> g, i |-> i + 1]
    ELSE LET later == {k \in (g + 1)..Len(imgs) : imgs[k].n >= 1}
         IN IF later = {} THEN [g |-> 0, i |-> 0]
            ELSE [g |-> CHOOSE k \in later : \A l \in later : k <= l, i |-> 1]

\* sub_idx = 0 at the head of a group's loop
GroupStartSubIdx(j) == 0

\* sub_idx += 1; idx += 1 at the end of an image's iteration
AfterImage_IdxKept(i, j) == [idx |-> i, sub_idx |-> j + 1]
AfterImage(i, j) == [idx |-> i + 1, sub_idx |-> j + 1]

\* while attempt < 3 of upload_validation_images (no break in its body)
ImageLoopRuns == attempt < MaxAttempts

\* while attempt < 3 of upload_model, left by the break after a successful upload
WeightLoopRuns_NoBreak == attempt < MaxAttempts
WeightLoopRuns ==
    attempt < MaxAttempts /\ (IF Len(outcomes) = 0 THEN TRUE
                               ELSE outcomes[Len(outcomes)] # "ok")

\* the attempt loop of upload_model run on a given sequence of outcomes:
\* the number of attempts it makes, counting from `a` attempts already made
RECURSIVE RetryAttempts(_, _)
RetryAttempts(o, a) ==
    IF a < MaxAttempts /\ a < Len(o)
    THEN IF o[a + 1] = "ok" THEN a + 1 ELSE RetryAttempts(o, a + 1)
    ELSE a

\* what one attempt of upload_full_model / upload_lora_model can do
WeightOutcomes == IF model_type = "lora" THEN {"ok", "fail", "fail_readme"} ELSE {"ok", "fail"}

\* what an attempt has uploaded when it ends with outcome o
Uploaded(o) ==
    IF model_type = "lora"
    THEN (IF o = "fail" THEN {} ELSE {"/pytorch_lora_weights.safetensors"})
         \cup (IF o = "ok" THEN {"/README.md"} ELSE {})
    ELSE IF o = "ok" THEN {<<RepoFolder, IF hcall.override # NoEntry THEN "" ELSE "pipeline">>}
         ELSE {}

\* entering the attempt loop of the image at position pos, after image.save
BeginImage(pos, i, j) ==
    /\ hpc' = "images"
    /\ gi' = pos.g /\ ii' = pos.i
    /\ idx' = i /\ sub_idx' = j
    /\ attempt' = 0 /\ outcomes' = <<>>
    /\ names' = Append(names, ImageNames(i, j))

\* leaving upload_validation_images: the attempt loop of upload_model starts
BeginWeights ==
    /\ hpc' = "weights"
    /\ attempt' = 0 /\ outcomes' = <<>>
    /\ UNCHANGED <<gi, ii, idx, sub_idx, names>>

\* upload_model up to the first hub call: notification, model card, first image.
\* The method keeps nothing from one call to the next, so one call is followed.
UploadModelStart(webhook, override, images) ==
    /\ hpc = "idle"
    /\ hcall' = [webhook |-> webhook, override |-> override, images |-> images]
    /\ msgs' = IF webhook
               THEN <<[kind |-> IF override = NoEntry THEN "uploading model"
                                ELSE "uploading intermediary checkpoint",
                       attempt |-> 0]>>
               ELSE <<>>
    /\ imgCalls' = <<>> /\ remote' = {}
    /\ LET pos == NextPos(images, 0, 0)
       IN IF pos.g # 0
          THEN /\ hpc' = "images"
               /\ gi' = pos.g /\ ii' = pos.i
               /\ idx' = 0 /\ sub_idx' = GroupStartSubIdx(0)
               /\ attempt' = 0 /\ outcomes' = <<>>
               /\ names' = <<[local |-> <<IF override # NoEntry THEN override ELSE OutputDir,
                                          "assets", FileName(0, GroupStartSubIdx(0))>>,
                              remote |-> <<"", "assets", FileName(0, GroupStartSubIdx(0))>>]>>
          ELSE /\ hpc' = "weights"
               /\ gi' = 0 /\ ii' = 0 /\ idx' = 0 /\ sub_idx' = 0
               /\ attempt' = 0 /\ outcomes' = <<>> /\ names' = <<>>
    /\ UNCHANGED <<cfgVars, ckptVars, s3Vars>>

\* one iteration of the image attempt loop: upload_file, exceptions swallowed;
\* upload_model passes webhook_handler=None, so no message is sent
ImageAttempt(o) ==
    /\ hpc = "images"
    /\ ImageLoopRuns
    /\ attempt' = attempt + 1
    /\ outcomes' = Append(outcomes, o)
    /\ UNCHANGED <<hpc, hcall, gi, ii, idx, sub_idx, names, imgCalls, msgs, remote>>
    /\ UNCHANGED <<cfgVars, ckptVars, s3Vars>>

\* the image's attempt loop is over: bump the counters, go to the next image
ImageDone ==
    /\ hpc = "images"
    /\ ~ImageLoopRuns
    /\ imgCalls' = Append(imgCalls, attempt)
    /\ LET pos == NextPos(hcall.images, gi, ii)
           c == AfterImage(idx, sub_idx)
       IN IF pos.g = 0 THEN /\ BeginWeights
          ELSE BeginImage(pos, c.idx,
                          IF pos.g # gi THEN GroupStartSubIdx(c.sub_idx) ELSE c.sub_idx)
    /\ UNCHANGED <<hcall, msgs, remote>>
    /\ UNCHANGED <<cfgVars, ckptVars, s3Vars>>

\* one iteration of the weight attempt loop
WeightAttempt(o) ==
    /\ hpc = "weights"
    /\ WeightLoopRuns
    /\ attempt' = attempt + 1
    /\ outcomes' = Append(outcomes, o)
    /\ remote' = remote \cup Uploaded(o)
    /\ msgs' = IF o # "ok" /\ hcall.webhook
               THEN Append(msgs, [kind |-> "error uploading model", attempt |-> attempt + 1])
               ELSE msgs
    /\ UNCHANGED <<hpc, hcall, gi, ii, idx, sub_idx, names, imgCalls>>
    /\ UNCHANGED <<cfgVars, ckptVars, s3Vars>>

\* after the loop: the closing notification, then upload_model returns
UploadModelFinish ==
    /\ hpc = "weights"
    /\ ~WeightLoopRuns
    /\ hpc' = "done"
    /\ msgs' = IF hcall.webhook
               THEN Append(msgs, [kind |-> "model is now available", attempt |-> 0])
               ELSE msgs
    /\ UNCHANGED <<hcall, gi, ii, idx, sub_idx, attempt, outcomes, names, imgCalls, remote>>
    /\ UNCHANGED <<cfgVars, ckptVars, s3Vars>>


(***************************************************************************)
(* aws.py: S3DataBackend                                                   *)
(* A path or key is the sequence of its '/'-delimited segments; the bucket *)
(* is a map from keys to bodies.  Every request to the client can fail.    *)
(***************************************************************************)
NoPath == <<>>
Paths == {<<"x">>, <<"y">>, <<"a", "x">>}
BatchPaths == {<<"x">>, <<"a", "x">>}

\* payloads: text (a sequence of code points) or bytes
Bytes(v) == [kind |-> "bytes", v |-> v]
Text(v) == [kind |-> "str", v |-> v]
WriteData == {Bytes(<<65>>)}
BatchData == {Text(<<233>>), Bytes(<<66>>)}

\* path.split("/")[-1]
_convert_path_to_key(path) == <<path[Len(path)]>>

\* str.encode("utf-8"), code point by code point
Utf8Char(c) ==
    IF c < 128 THEN <<c>>
    ELSE IF c < 2048 THEN <<192 + (c \div 64), 128 + (c % 64)>>
    ELSE IF c < 65536
         THEN <<224 + (c \div 4096), 128 + ((c \div 64) % 64), 128 + (c % 64)>>
    ELSE <<240 + (c \div 262144), 128 + ((c \div 4096) % 64),
           128 + ((c \div 64) % 64), 128 + (c % 64)>>

RECURSIVE Utf8(_)
Utf8(v) == IF v = <<>> THEN <<>> ELSE Utf8Char(Head(v)) \o Utf8(Tail(v))

\* if isinstance(data, str): data = data.encode("utf-8")
Encode(data) == IF data.kind = "str" THEN Bytes(Utf8(data.v)) ELSE data

\* client.put_object / delete_object on the bucket
PutObject(b, key, body) == [k \in (DOMAIN b) \cup {key} |-> IF k = key THEN body ELSE b[k]]
DeleteObject(b, key) == [k \in (DOMAIN b) \ {key} |-> b[k]]

NoOp == [op |-> "none", path |-> NoPath, key |-> NoPath, fault |-> FALSE,
         result |-> "none", body |-> <<>>]

\* the path of the successful write() that is the last operation, or NoPath
JustWritten == IF last.op = "write" /\ last.result = "ok" THEN last.path ELSE NoPath

\* exists: True when head_object answers, False on any exception
ExistsResult_OnlyNotFound(found, fault) ==
    IF fault THEN "raised" ELSE IF found THEN "True" ELSE "False"
ExistsResult(found, fault) == IF found /\ ~fault THEN "True" ELSE "False"

exists(s3_key, fault) ==
    /\ bpc = "idle"
    /\ LET key == _convert_path_to_key(s3_key)
       IN last' = [op |-> "exists", path |-> s3_key, key |-> key, fault |-> fault,
                   result |-> ExistsResult(key \in DOMAIN store, fault), body |-> <<>>]
    /\ prevWrite' = JustWritten
    /\ tasks' = <<>> /\ puts' = <<>>
    /\ UNCHANGED <<store, everPut, bpc, queue, workers>>
    /\ UNCHANGED <<cfgVars, ckptVars, hubVars>>

\* read: get_object, its exceptions propagate
read(s3_key, fault) ==
    /\ bpc = "idle"
    /\ LET key == _convert_path_to_key(s3_key)
           found == key \in DOMAIN store /\ ~fault
       IN last' = [op |-> "read", path |-> s3_key, key |-> key, fault |-> fault,
                   result |-> IF found THEN "ok" ELSE "raised",
                   body |-> IF found THEN store[key].v ELSE <<>>]
    /\ prevWrite' = JustWritten
    /\ tasks' = <<>> /\ puts' = <<>>
    /\ UNCHANGED <<store, everPut, bpc, queue, workers>>
    /\ UNCHANGED <<cfgVars, ckptVars, hubVars>>

\* write: put_object, its exceptions propagate
write(s3_key, data, fault) ==
    /\ bpc = "idle"
    /\ LET key == _convert_path_to_key(s3_key)
       IN /\ last' = [op |-> "write", path |-> s3_key, key |-> key, fault |-> fault,
                      result |-> IF fault THEN "raised" ELSE "ok", body |-> <<>>]
          /\ store' = IF fault THEN store ELSE PutObject(store, key, data)
          /\ everPut' = IF fault THEN everPut
                        ELSE everPut \cup {[path |-> s3_key, key |-> key]}
    /\ prevWrite' = JustWritten
    /\ tasks' = <<>> /\ puts' = <<>>
    /\ UNCHANGED <<bpc, queue, workers>>
    /\ UNCHANGED <<cfgVars, ckptVars, hubVars>>

\* delete: delete_object (deleting an absent key is not an error)
delete(s3_key, fault) ==
    /\ bpc = "idle"
    /\ LET key == _convert_path_to_key(s3_key)
       IN /\ last' = [op |-> "delete", path |-> s3_key, key |-> key, fault |-> fault,
                      result |-> IF fault THEN "raised" ELSE "ok", body |-> <<>>]
          /\ store' = IF fault THEN store ELSE DeleteObject(store, key)
    /\ prevWrite' = JustWritten
    /\ tasks' = <<>> /\ puts' = <<>>
    /\ UNCHANGED <<everPut, bpc, queue, workers>>
    /\ UNCHANGED <<cfgVars, ckptVars, hubVars>>

\* the key upload_to_s3 hands to put_object: s3_key as given
BatchKey(s3_key) == s3_key

\* executor.map(upload_to_s3, s3_keys, data_list): every pair is submitted at once
write_batch_start(pairs) ==
    /\ bpc = "idle"
    /\ \A w \in DOMAIN workers : workers[w] = 0
    /\ bpc' = "running"
    /\ tasks' = pairs
    /\ queue' = [i \in 1..Len(pairs) |-> i]
    /\ workers' = [w \in 1..MaxWorkers |-> 0]
    /\ puts' = [i \in 1..Len(pairs) |-> <<>>]
    /\ last' = [op |-> "write_batch", path |-> NoPath, key |-> NoPath, fault |-> FALSE,
                result |-> "running", body |-> <<>>]
    /\ prevWrite' = NoPath
    /\ UNCHANGED <<store, everPut>>
    /\ UNCHANGED <<cfgVars, ckptVars, hubVars>>

\* an idle worker thread takes the next work item from the executor's queue
worker_take(w) ==
    /\ workers[w] = 0
    /\ Len(queue) > 0
    /\ workers' = [workers EXCEPT ![w] = Head(queue)]
    /\ queue' = Tail(queue)
    /\ UNCHANGED <<store, everPut, last, prevWrite, bpc, tasks, puts>>
    /\ UNCHANGED <<cfgVars, ckptVars, hubVars>>

\* upload_to_s3 in a worker: encode, put_object; an exception stays in the future
upload_to_s3(w, fault) ==
    /\ workers[w] # 0
    /\ LET i == workers[w]
           key == BatchKey(tasks[i].path)
           body == Encode(tasks[i].data)
       IN /\ puts' = [puts EXCEPT ![i] = Append(@, [key |-> key, body |-> body,
                                                    result |-> IF fault THEN "raised" ELSE "ok"])]
          /\ store' = IF fault THEN store ELSE PutObject(store, key, body)
          /\ everPut' = IF fault THEN everPut
                        ELSE everPut \cup {[path |-> tasks[i].path, key |-> key]}
    /\ workers' = [workers EXCEPT ![w] = 0]
    /\ UNCHANGED <<last, prevWrite, bpc, tasks, queue>>
    /\ UNCHANGED <<cfgVars, ckptVars, hubVars>>

\* leaving the with block: executor.shutdown(wait=True)
ShutdownDone_NoWait == TRUE
ShutdownDone == Len(queue) = 0 /\ \A w \in DOMAIN workers : workers[w] = 0

\* the iterator executor.map returns is never read, so no exception is re-raised
BatchResult == "returned"

write_batch_return ==
    /\ bpc = "running"
    /\ ShutdownDone
    /\ bpc' = "idle"
    /\ last' = [last EXCEPT !.result = BatchResult]
    /\ UNCHANGED <<store, everPut, prevWrite, tasks, queue, workers, puts>>
    /\ UNCHANGED <<cfgVars, ckptVars, hubVars>>


(***************************************************************************)
(* Initial states                                                          *)
(***************************************************************************)
HubIdle ==
    /\ hpc = "idle"
    /\ hcall = NoCall
    /\ gi = 0 /\ ii = 0 /\ idx = 0 /\ sub_idx = 0 /\ attempt = 0
    /\ outcomes = <<>> /\ names = <<>> /\ imgCalls = <<>> /\ msgs = <<>>
    /\ remote = {}

S3Idle ==
    /\ store = <<>> /\ everPut = {} /\ last = NoOp /\ prevWrite = NoPath
    /\ bpc = "idle" /\ tasks = <<>> /\ queue = <<>> /\ workers = <<>> /\ puts = <<>>

CkptIdle ==
    /\ checkpoints_total_limit = None
    /\ use_deepspeed_optimizer = FALSE
    /\ disk = <<>>
    /\ hook = NoHook /\ latest = NoLatest

\* an output directory left by earlier runs: complete checkpoints of any steps,
\* with the pipeline/ and assets/ directories beside them
InitCkpt ==
    /\ model_type \in {"full", "lora"}
    /\ checkpoints_total_limit \in {None} \cup {<<L>> : L \in 1..MaxLimit}
    /\ use_deepspeed_optimizer \in BOOLEAN
    /\ \E steps \in SUBSET (0..MaxStep) :
         /\ Cardinality(steps) <= MaxInitCheckpoints
         /\ disk = [e \in {CheckpointDir(n) : n \in steps} \cup OtherEntries |->
                      IF e.pre = "checkpoint" THEN FullContents ELSE {}]
    /\ hook = NoHook /\ latest = NoLatest
    /\ HubIdle /\ S3Idle

NextCkpt == SaveCheckpoint \/ UploadLatestCheckpoint

SpecCkpt == InitCkpt /\ [][NextCkpt]_vars

InitHub ==
    /\ model_type \in {"full", "lora"}
    /\ HubIdle /\ CkptIdle /\ S3Idle

UploadModel ==
    \E webhook \in BOOLEAN, override \in {NoEntry, CheckpointDir(MaxStep)},
       images \in ImageInputs : UploadModelStart(webhook, override, images)

UploadImageStep == \E o \in {"ok", "fail"} : ImageAttempt(o)

UploadWeightStep == \E o \in WeightOutcomes : WeightAttempt(o)

NextHub ==
    \/ UploadModel
    \/ UploadImageStep
    \/ ImageDone
    \/ UploadWeightStep
    \/ UploadModelFinish

SpecHub == InitHub /\ [][NextHub]_vars

InitS3 ==
    /\ model_type = "full"
    /\ store = <<>> /\ everPut = {} /\ last = NoOp /\ prevWrite = NoPath
    /\ bpc = "idle" /\ tasks = <<>> /\ queue = <<>> /\ puts = <<>>
    /\ workers = [w \in 1..MaxWorkers |-> 0]
    /\ HubIdle /\ CkptIdle

Exists == \E p \in Paths, fault \in BOOLEAN : exists(p, fault)
Read == \E p \in Paths, fault \in BOOLEAN : read(p, fault)
Write == \E p \in Paths, data \in WriteData, fault \in BOOLEAN : write(p, data, fault)
Delete == \E p \in Paths, fault \in BOOLEAN : delete(p, fault)
WriteBatch ==
    \E pairs \in SeqsUpTo({[path |-> p, data |-> d] : p \in BatchPaths, d \in BatchData},
                          MaxBatch) : write_batch_start(pairs)
WorkerTake == \E w \in 1..MaxWorkers : worker_take(w)
WorkerUpload == \E w \in 1..MaxWorkers, fault \in BOOLEAN : upload_to_s3(w, fault)

NextS3 ==
    \/ Exists
    \/ Read
    \/ Write
    \/ Delete
    \/ WriteBatch
    \/ WorkerTake
    \/ WorkerUpload
    \/ write_batch_return

SpecS3 == InitS3 /\ [][NextS3]_vars

(***************************************************************************)
(* Claims about the save hook and the latest checkpoint (SpecCkpt)         *)
(***************************************************************************)
HookReturned == hook.result = "returned" /\ checkpoints_total_limit # None

\* C1: with a limit L configured, one save_model_hook invocation that writes one new
\* checkpoint leaves exactly min(L, previous_count + 1) checkpoint directories, and
\* they are the most recent ones by numeric suffix, the new checkpoint among them.
C1_RetentionExact ==
    (HookReturned /\ model_type = "full" /\ Len(hook.models) >= 1) =>
        LET now == ListCheckpoints(disk)
            all == hook.before \cup {hook.out}
        IN /\ Cardinality(now) = Min(Limit, Cardinality(hook.before) + 1)
           /\ now \subseteq all
           /\ hook.out \in now
           /\ \A e \in now, f \in all \ now : SortKey(f) < SortKey(e)

\* C2: with a limit L configured, whenever a save through save_model_hook has
\* completed, for the full model and for the LoRA variant alike, at most L
\* checkpoint directories are on disk.
C2_AtMostLimit ==
    HookReturned => Cardinality(ListCheckpoints(disk)) <= Limit

\* C10: when save_model_hook returns, what it wrote in this invocation is still on
\* disk: the new checkpoint directory with its training_state.json and the
\* sub-folder of every model it handled.
C10_NewCheckpointIntact ==
    (HookReturned /\ model_type = "full") =>
        /\ hook.out \in DOMAIN disk
        /\ "training_state.json" \in disk[hook.out]
        /\ \A i \in 1..Len(hook.models) : SubDir(hook.models[i]) \in disk[hook.out]

\* C6: whenever a checkpoint-<n> directory exists, find_latest_checkpoint returns
\* the one of maximal numeric suffix and upload_latest_checkpoint calls upload_model
\* with it as override_path; it does nothing only when there is no checkpoint.
C6_LatestIsNumericMax ==
    latest.called =>
        LET cps == ListCheckpoints(disk)
        IN /\ cps # {} =>
                /\ latest.found \in cps
                /\ \A e \in cps : SortKey(e) <= SortKey(latest.found)
                /\ latest.uploaded
                /\ latest.override = latest.found
           /\ cps = {} => ~latest.uploaded

(***************************************************************************)
(* Claims about the hub manager (SpecHub)                                  *)
(***************************************************************************)
AllFail(o) == \A i \in 1..Len(o) : o[i] # "ok"

\* C3: the weight-upload step of upload_model is attempted at most 3 times and never
\* again after an attempt that succeeded; two failures then a success make exactly 3
\* attempts and end in success; three failures make exactly 3 attempts and
\* upload_model still returns.
C3_WeightRetry ==
    /\ hpc \in {"weights", "done"} =>
          /\ attempt <= 3
          /\ Len(outcomes) = attempt
          /\ \A i \in 1..(attempt - 1) : outcomes[i] # "ok"
    /\ (hpc = "weights" /\ attempt = 3) => ~WeightLoopRuns
    /\ hpc = "done" =>
          /\ attempt >= 1
          /\ AllFail(outcomes) => attempt = 3
          /\ ~AllFail(outcomes) =>
                /\ outcomes[attempt] = "ok"
                /\ Uploaded("ok") \subseteq remote

\* reached: upload_model has returned after two failed attempts and a successful third
C3_Witness == hpc = "done" /\ outcomes = <<"fail", "fail", "ok">>

\* C4: for every sequence of per-attempt outcomes, the number of upload_file calls
\* made for one image equals the number of attempts the weight-upload loop makes on
\* that sequence: an image that was uploaded successfully is not uploaded again, and
\* no image is attempted more than 3 times.
C4_ImageRetrySameAsWeights ==
    (hpc = "images" /\ ~ImageLoopRuns) =>
        /\ attempt = RetryAttempts(outcomes, 0)
        /\ \A i \in 1..(attempt - 1) : outcomes[i] # "ok"
        /\ attempt <= 3

\* sizes of the groups of the running call, and the files named so far
Sizes == [k \in 1..Len(hcall.images) |-> hcall.images[k].n]
LocalFiles == [k \in 1..Len(names) |-> names[k].local[3]]
RemoteFiles == [k \in 1..Len(names) |-> names[k].remote[3]]
ImagesOver == hpc \in {"weights", "done"}

\* for each image in iteration order, its 0-based position within its group
RECURSIVE PositionsInGroups(_)
PositionsInGroups(sz) ==
    IF sz = <<>> THEN <<>>
    ELSE [j \in 1..Head(sz) |-> j - 1] \o PositionsInGroups(Tail(sz))

AvailableSent == \E k \in 1..Len(msgs) : msgs[k].kind = "model is now available"

\* C11: with a notification handler present, the "Model is now available" message
\* is sent only if some weight-upload attempt succeeded; when all 3 attempts raise,
\* it is never sent.
C11_AvailableOnlyAfterSuccess ==
    (hcall.webhook /\ AvailableSent) => ~AllFail(outcomes)

(***************************************************************************)
(* Claims about the S3 backend (SpecS3)                                    *)
(***************************************************************************)
FinalSegment(path) == <<path[Len(path)]>>

\* C7: exists, read, write, delete and write_batch all address the store with the
\* final '/'-delimited segment of the path they are given, so an object written
\* under p by write or by write_batch is the one exists(p), read(p), delete(p) address.
C7_KeyIsFinalSegment ==
    /\ last.op \in {"exists", "read", "write", "delete"} => last.key = FinalSegment(last.path)
    /\ \A i \in DOMAIN puts : \A k \in 1..Len(puts[i]) :
          puts[i][k].key = FinalSegment(tasks[i].path)
    /\ \A e \in everPut : e.key = FinalSegment(e.path)

WrittenPaths == {e.path : e \in everPut}
StoredKeys == {e.key : e \in everPut}

\* C8 (as in the spec): exists(key) never raises; it is false for any key that was
\* never written and whenever the head request fails, and true immediately after a
\* successful write to that same key.
C8_AsClaimed ==
    last.op = "exists" =>
        /\ last.result \in {"True", "False"}
        /\ last.fault => last.result = "False"
        /\ last.path \notin WrittenPaths => last.result = "False"
        /\ (prevWrite = last.path /\ ~last.fault) => last.result = "True"

\* C8 (amended): exists(key) never raises; it is false whenever the head request
\* fails and for any key whose final '/'-segment is not the key of an object ever
\* stored, and true immediately after a successful write to that same key (when the
\* head request itself does not fail).
C8_ExistsAfterWrite ==
    last.op = "exists" =>
        /\ last.result \in {"True", "False"}
        /\ last.fault => last.result = "False"
        /\ FinalSegment(last.path) \notin StoredKeys => last.result = "False"
        /\ (prevWrite = last.path /\ ~last.fault) => last.result = "True"

\* reached: exists(p) answered True right after a successful write(p), p a nested path
C8_Witness ==
    /\ last.op = "exists" /\ last.result = "True"
    /\ prevWrite = last.path /\ Len(last.path) = 2

\* C9: write_batch on N pairs issues exactly N put operations, one per pair, text
\* payloads encoded to bytes, under every interleaving of the workers; a failed put
\* neither keeps the other puts from being issued nor makes write_batch raise, and
\* write_batch returns only after all N puts have finished.
C9_BatchPuts ==
    /\ \A i \in DOMAIN puts :
          /\ Len(puts[i]) <= 1
          /\ \A k \in 1..Len(puts[i]) :
                /\ puts[i][k].body.kind = "bytes"
                /\ tasks[i].data = Text(<<233>>) => puts[i][k].body.v = <<195, 169>>
                /\ tasks[i].data.kind = "bytes" => puts[i][k].body = tasks[i].data
    /\ (last.op = "write_batch" /\ bpc = "idle") =>
          /\ last.result = "returned"
          /\ DOMAIN puts = 1..Len(tasks)
          /\ \A i \in 1..Len(tasks) : Len(puts[i]) = 1
          /\ \A w \in DOMAIN workers : workers[w] = 0

\* reached: a batch of two or more pairs, one of them text, has returned although
\* one of its puts failed
C9_Witness ==
    /\ last.op = "write_batch" /\ bpc = "idle" /\ Len(tasks) >= 2
    /\ \E i \in 1..Len(tasks) : tasks[i].data.kind = "str"
    /\ \E i \in 1..Len(tasks) : puts[i][1].result = "raised"
    /\ \E i \in 1..Len(tasks) : puts[i][1].result = "ok"

====
